---- MODULE Spec2Model ----
(***************************************************************************)
(* A model of objdictgen's nosis XML pickler (src/objdictgen/nosis.py):    *)
(* the scalar codec (ntoa/aton, safe_string/unsafe_string, safe_content/   *)
(* unsafe_content), the module-global identity table VISITED, the class    *)
(* registry CLASS_STORE, the encoder (xmldump) and the decoder (xmlload).  *)
(*                                                                         *)
(* Text is a sequence of one-character strings.  A document is the         *)
(* sequence of tags the encoder writes, in the order it writes them; the   *)
(* decoder walks that sequence with an explicit stack, which is the        *)
(* recursion of _thing_from_dom over the DOM minidom builds from it.       *)
(***************************************************************************)
EXTENDS Integers, Sequences, FiniteSets, TLC

(***************************************************************************)
(* Bounds of the model.                                                    *)
(***************************************************************************)
MaxStrLen == 4      \* longest str scalar drawn as an input
MaxInt == 12        \* int scalars are drawn from -MaxInt..MaxInt
MaxHalf == 3        \* float components are drawn from -MaxHalf/2..MaxHalf/2
MaxDepth == 5       \* frames of _tag_completer the interpreter allows
MaxSlots == 2       \* most fields of the root / slots of one container
MaxObjs == 2        \* most containers of a drawn graph, besides the root
MaxCells == 3       \* most items (fields, elements, pairs) of a drawn graph
MaxCalls == 2       \* top-level calls the host makes in one behaviour
MaxPath == 4        \* longest path followed when two graphs are compared
MaxDigits == 2      \* most digits of a legacy literal in a document written by hand
MaxParens == 2      \* most pairs of parentheses around such a literal
MaxTextLen == 3     \* longest text drawn character by character for a numeric node
MaxFormLen == 2     \* longest str written in both the attribute and the body form

(***************************************************************************)
(* Text helpers.                                                           *)
(***************************************************************************)
DigitChars == <<"0", "1", "2", "3", "4", "5", "6", "7", "8", "9">>

HexChars == DigitChars \o <<"a", "b", "c", "d", "e", "f">>

IsDigit(c) == \E i \in 1..10 : DigitChars[i] = c

DigitVal(c) == (CHOOSE i \in 1..10 : DigitChars[i] = c) - 1

AllDigits(s) == \A i \in 1..Len(s) : IsDigit(s[i])

\* \d+
Dec(s) == Len(s) >= 1 /\ AllDigits(s)

Abs(n) == IF n < 0 THEN 0 - n ELSE n

RECURSIVE NatToStr(_)
NatToStr(n) == IF n < 10 THEN <<DigitChars[n + 1]>>
               ELSE NatToStr(n \div 10) \o <<DigitChars[(n % 10) + 1]>>

\* str(int)
IntToStr(n) == IF n < 0 THEN <<"-">> \o NatToStr(0 - n) ELSE NatToStr(n)

RECURSIVE StrToNat(_)
StrToNat(s) == IF s = <<>> THEN 0
               ELSE 10 * StrToNat(SubSeq(s, 1, Len(s) - 1)) + DigitVal(s[Len(s)])

HasSign(s) == Len(s) >= 1 /\ s[1] \in {"+", "-"}

StripSign(s) == IF HasSign(s) THEN Tail(s) ELSE s

SignOf(s) == IF Len(s) >= 1 /\ s[1] = "-" THEN 0 - 1 ELSE 1

\* int(text) of an optionally signed run of decimal digits
PyInt(s) == SignOf(s) * StrToNat(StripSign(s))

RECURSIVE Pow10(_)
Pow10(k) == IF k <= 0 THEN 1 ELSE 10 * Pow10(k - 1)

\* str.replace(old, new): leftmost, non-overlapping occurrences
RECURSIVE Replace(_, _, _)
Replace(s, old, new) ==
    IF Len(s) < Len(old) THEN s
    ELSE IF SubSeq(s, 1, Len(old)) = old
         THEN new \o Replace(SubSeq(s, Len(old) + 1, Len(s)), old, new)
         ELSE <<s[1]>> \o Replace(Tail(s), old, new)

Contains(s, c) == \E i \in 1..Len(s) : s[i] = c

(***************************************************************************)
(* Values.  Every value is a record of one shape, so that any two can be   *)
(* compared: t is the Python type; n, e hold an int (n), a bool (n), the   *)
(* address of a compound object (t = "ref", n) or a float n * 10^e in      *)
(* normal form; n2, e2 hold the imaginary part of a complex; s holds the   *)
(* characters of a str.                                                    *)
(***************************************************************************)
Val(t, n, e, n2, e2, s) == [t |-> t, n |-> n, e |-> e, n2 |-> n2, e2 |-> e2, s |-> s]

NoneV == Val("None", 0, 0, 0, 0, <<>>)

BoolV(b) == Val("bool", IF b THEN 1 ELSE 0, 0, 0, 0, <<>>)

IntV(n) == Val("int", n, 0, 0, 0, <<>>)

StrV(s) == Val("str", 0, 0, 0, 0, s)

RefV(a) == Val("ref", a, 0, 0, 0, <<>>)

\* the normal form of the decimal n * 10^e: n carries no factor 10
RECURSIVE NormN(_, _)
NormN(n, e) == IF n # 0 /\ n % 10 = 0 THEN NormN(n \div 10, e + 1) ELSE n

RECURSIVE NormE(_, _)
NormE(n, e) == IF n = 0 THEN 0
               ELSE IF n % 10 = 0 THEN NormE(n \div 10, e + 1) ELSE e

FloatV(n, e) == Val("float", NormN(n, e), NormE(n, e), 0, 0, <<>>)

ComplexV(n, e, n2, e2) ==
    Val("complex", NormN(n, e), NormE(n, e), NormN(n2, e2), NormE(n2, e2), <<>>)

\* the float h/2
HalfV(h) == FloatV(5 * h, 0 - 1)

\* the complex hr/2 + (hi/2)j
HalfComplexV(hr, hi) == ComplexV(5 * hr, 0 - 1, 5 * hi, 0 - 1)

IsScalar(v) == v.t # "ref"

(***************************************************************************)
(* ntoa (nosis.py:113-130).                                                *)
(***************************************************************************)
\* k decimal digits of m, zero-padded on the left
RECURSIVE FracStr(_, _)
FracStr(m, k) == IF k <= 0 THEN <<>>
                 ELSE FracStr(m \div 10, k - 1) \o <<DigitChars[(m % 10) + 1]>>

\* f"{x:.17g}" of the float n * 10^e.  Exact for the floats the model draws
\* (multiples of 1/2 of small magnitude, which print without an exponent and
\* without rounding noise); inf and nan are not modelled.
Fmt17g(n, e) ==
    IF e >= 0 THEN IntToStr(n * Pow10(e))
    ELSE (IF n < 0 THEN <<"-">> ELSE <<>>)
         \o NatToStr(Abs(n) \div Pow10(0 - e))
         \o <<".">> \o FracStr(Abs(n) % Pow10(0 - e), 0 - e)

ntoa(num) ==
    IF num.t = "int" THEN IntToStr(num.n)
    ELSE IF num.t = "float"
         THEN LET s == Fmt17g(num.n, num.e)
              IN IF ~Contains(s, ".") /\ ~Contains(s, "e") THEN s \o <<".">> ELSE s
         ELSE Fmt17g(num.n, num.e) \o <<"+">> \o Fmt17g(num.n2, num.e2) \o <<"j">>

(***************************************************************************)
(* The number patterns (nosis.py:48-62).  A pattern ends in '$' and is     *)
(* applied with match(), so it must match the whole text.                  *)
(***************************************************************************)
\* ((\d+)?[.]\d+|\d+[.])
IsMantissa(u) ==
    \E p \in 1..Len(u) :
        /\ u[p] = "."
        /\ AllDigits(SubSeq(u, 1, p - 1))
        /\ AllDigits(SubSeq(u, p + 1, Len(u)))
        /\ Len(u) >= 2

\* the body of PAT_FL after its optional sign
IsFloatBody(u) ==
    \/ IsMantissa(u)
    \/ \E k \in 1..Len(u) :
          /\ u[k] \in {"e", "E"}
          /\ (IsMantissa(SubSeq(u, 1, k - 1)) \/ Dec(SubSeq(u, 1, k - 1)))
          /\ Dec(StripSign(SubSeq(u, k + 1, Len(u))))

RE_FLOAT(s) == IsFloatBody(StripSign(s))

RE_ZERO(s) == StripSign(s) = <<"0">>

RE_INT(s) ==
    LET u == StripSign(s)
    IN Len(u) >= 1 /\ u[1] # "0" /\ AllDigits(u)

RE_LONG(s) ==
    LET u == StripSign(s)
    IN Len(u) >= 2 /\ u[Len(u)] \in {"l", "L"} /\ AllDigits(SubSeq(u, 1, Len(u) - 1))

IsHexDigit(c) ==
    \/ \E i \in 1..16 : HexChars[i] = c
    \/ c \in {"A", "B", "C", "D", "E", "F"}

RE_HEX(s) ==
    LET u == StripSign(s)
    IN /\ Len(u) >= 3
       /\ u[1] = "0"
       /\ u[2] \in {"x", "X"}
       /\ \A i \in 3..Len(u) : IsHexDigit(u[i])

IsOctDigit(c) == \E i \in 1..8 : DigitChars[i] = c

RE_OCT(s) ==
    LET u == StripSign(s)
    IN Len(u) >= 2 /\ u[1] = "0" /\ \A i \in 2..Len(u) : IsOctDigit(u[i])

\* PAT_FLINT
IsFlint(s) == RE_FLOAT(s) \/ RE_INT(s)

\* the places k at which (PAT_FLINT)?[-+]PAT_FLINT[jJ] can take its middle sign
ComplexSplits(s) ==
    {k \in 1..(Len(s) - 2) :
        /\ s[k] \in {"+", "-"}
        /\ s[Len(s)] \in {"j", "J"}
        /\ (k = 1 \/ IsFlint(SubSeq(s, 1, k - 1)))
        /\ IsFlint(SubSeq(s, k + 1, Len(s) - 1))}

RE_COMPLEX(s) == ComplexSplits(s) # {}

Complex2Splits(s) ==
    {k \in 2..(Len(s) - 1) :
        /\ s[k] = ":"
        /\ IsFlint(SubSeq(s, 1, k - 1))
        /\ IsFlint(SubSeq(s, k + 1, Len(s)))}

RE_COMPLEX2(s) == Complex2Splits(s) # {}

(***************************************************************************)
(* The conversions aton calls on a matched text.                           *)
(***************************************************************************)
\* the mantissa digits of a float body, without the point
MantDigits(u) == SelectSeq(u, LAMBDA c : c # ".")

\* the number of digits after the point
FracLen(u) ==
    IF Contains(u, ".")
    THEN Len(u) - (CHOOSE p \in 1..Len(u) : u[p] = ".")
    ELSE 0

\* float(text) of a text PAT_FL or PAT_INT matches, as the pair <<n, e>> of
\* the decimal n * 10^e (binary rounding is not modelled)
PyFloat(s) ==
    LET u == StripSign(s)
        ks == {k \in 1..Len(u) : u[k] \in {"e", "E"}}
        k == IF ks = {} THEN Len(u) + 1 ELSE CHOOSE x \in ks : TRUE
        mant == SubSeq(u, 1, k - 1)
        ex == IF ks = {} THEN 0 ELSE PyInt(SubSeq(u, k + 1, Len(u)))
    IN <<SignOf(s) * StrToNat(MantDigits(mant)), ex - FracLen(mant)>>

HexVal(c) ==
    IF c \in {"A", "B", "C", "D", "E", "F"}
    THEN 10 + (CHOOSE i \in 0..5 : <<"A", "B", "C", "D", "E", "F">>[i + 1] = c)
    ELSE (CHOOSE i \in 1..16 : HexChars[i] = c) - 1

\* int(digits, base)
RECURSIVE PyIntBase(_, _)
PyIntBase(s, base) ==
    IF s = <<>> THEN 0
    ELSE base * PyIntBase(SubSeq(s, 1, Len(s) - 1), base) + HexVal(s[Len(s)])

Result(err, val) == [err |-> err, val |-> val]

Ok(val) == Result("", val)

Raise(err) == Result(err, NoneV)

\* complex(text) of a text RE_COMPLEX matches: the real part, one sign, then
\* an unsigned imaginary part; a second sign after the first is malformed
PyComplex(s) ==
    LET k == CHOOSE x \in ComplexSplits(s) : TRUE
        re == IF k = 1 THEN <<0, 0>> ELSE PyFloat(SubSeq(s, 1, k - 1))
        imt == SubSeq(s, k + 1, Len(s) - 1)
        im == PyFloat(imt)
        sg == IF s[k] = "-" THEN 0 - 1 ELSE 1
    IN IF HasSign(imt) THEN Raise("ValueError: complex() arg is a malformed string")
       ELSE Ok(ComplexV(re[1], re[2], sg * im[1], im[2]))

(***************************************************************************)
(* aton (nosis.py:65-109).                                                 *)
(***************************************************************************)
IsSpace(c) == c \in {" ", "\n", "\t"}

\* str.strip()
RECURSIVE Strip(_)
Strip(s) ==
    IF s = <<>> THEN s
    ELSE IF IsSpace(s[1]) THEN Strip(Tail(s))
    ELSE IF IsSpace(s[Len(s)]) THEN Strip(SubSeq(s, 1, Len(s) - 1))
    ELSE s

\* an aton that leaves the parentheses where they are
KeepParens(s) == s

\* while s[0] == '(' and s[-1] == ')': s = s[1:-1]
RECURSIVE Unparen(_)
Unparen(s) ==
    IF s # <<>> /\ s[1] = "(" /\ s[Len(s)] = ")"
    THEN Unparen(SubSeq(s, 2, Len(s) - 1))
    ELSE s

aton(s0) ==
    LET s == Unparen(Strip(s0))
    IN IF s = <<>> THEN Raise("IndexError")      \* s[0] of an empty text
       ELSE IF RE_ZERO(s) THEN Ok(IntV(0))
       ELSE IF RE_FLOAT(s) THEN Ok(FloatV(PyFloat(s)[1], PyFloat(s)[2]))
       ELSE IF RE_LONG(s) THEN Ok(IntV(PyInt(SubSeq(s, 1, Len(s) - 1))))
       ELSE IF RE_INT(s) THEN Ok(IntV(PyInt(s)))
       ELSE IF RE_HEX(s)
            THEN Ok(IntV(SignOf(s) * PyIntBase(SubSeq(StripSign(s), 3, Len(StripSign(s))), 16)))
       ELSE IF RE_OCT(s)
            THEN Ok(IntV(SignOf(s) * PyIntBase(Tail(StripSign(s)), 8)))
       ELSE IF RE_COMPLEX(s) THEN PyComplex(s)
       ELSE IF RE_COMPLEX2(s)
            THEN LET k == CHOOSE x \in Complex2Splits(s) : TRUE
                     r == PyFloat(SubSeq(s, 1, k - 1))
                     i == PyFloat(SubSeq(s, k + 1, Len(s)))
                 IN Ok(ComplexV(r[1], r[2], i[1], i[2]))
       ELSE Raise("ValueError: Invalid string")

(***************************************************************************)
(* String escaping (nosis.py:133-178).                                     *)
(***************************************************************************)
XML_QUOTES == <<
    <<(<<"&">>), <<"&", "a", "m", "p", ";">>>>,
    <<(<<"<">>), <<"&", "l", "t", ";">>>>,
    <<(<<">">>), <<"&", "g", "t", ";">>>>,
    <<(<<"\"">>), <<"&", "q", "u", "o", "t", ";">>>>,
    <<(<<"'">>), <<"&", "a", "p", "o", "s", ";">>>> >>

\* for repl in XML_QUOTES: s = s.replace(repl[0], repl[1]), from pair i on
RECURSIVE QuoteFrom(_, _)
QuoteFrom(s, i) ==
    IF i > Len(XML_QUOTES) THEN s
    ELSE QuoteFrom(Replace(s, XML_QUOTES[i][1], XML_QUOTES[i][2]), i + 1)

\* for repl in XML_QUOTES: s = s.replace(repl[1], repl[0]), from pair i on
RECURSIVE UnquoteFrom(_, _)
UnquoteFrom(s, i) ==
    IF i > Len(XML_QUOTES) THEN s
    ELSE UnquoteFrom(Replace(s, XML_QUOTES[i][2], XML_QUOTES[i][1]), i + 1)

\* repr(s)[1:-1]: the body of the literal repr writes.  repr quotes with ' and
\* escapes ' unless the text holds ' and no ", and then quotes with ".
RECURSIVE ReprBody(_, _)
ReprBody(s, q) ==
    IF s = <<>> THEN <<>>
    ELSE (IF s[1] = "\\" THEN <<"\\", "\\">>
          ELSE IF s[1] = "\n" THEN <<"\\", "n">>
          ELSE IF s[1] = "\r" THEN <<"\\", "r">>
          ELSE IF s[1] = "\t" THEN <<"\\", "t">>
          ELSE IF s[1] = q THEN <<"\\", q>>
          ELSE <<s[1]>>) \o ReprBody(Tail(s), q)

PyReprBody(s) ==
    ReprBody(s, IF Contains(s, "'") /\ ~Contains(s, "\"") THEN "\"" ELSE "'")

safe_string(s) == PyReprBody(QuoteFrom(s, 1))

\* the value of the literal ast.parse reads from "'" + s + "'": "" when the
\* literal is malformed (TextBad), else its characters.  \x27 is the one
\* \x escape the model reads; any other is outside the model's alphabet.
RECURSIVE LiteralBad(_)
LiteralBad(s) ==
    IF s = <<>> THEN FALSE
    ELSE IF s[1] \in {"'", "\n", "\r"} THEN TRUE
    ELSE IF s[1] # "\\" THEN LiteralBad(Tail(s))
    ELSE IF Len(s) = 1 THEN TRUE
    ELSE IF s[2] = "x"
         THEN IF Len(s) >= 4 /\ s[3] = "2" /\ s[4] = "7"
              THEN LiteralBad(SubSeq(s, 5, Len(s)))
              ELSE TRUE
    ELSE LiteralBad(SubSeq(s, 3, Len(s)))

RECURSIVE LiteralValue(_)
LiteralValue(s) ==
    IF s = <<>> THEN <<>>
    ELSE IF s[1] # "\\" THEN <<s[1]>> \o LiteralValue(Tail(s))
    ELSE IF s[2] = "x" THEN <<"'">> \o LiteralValue(SubSeq(s, 5, Len(s)))
    ELSE (IF s[2] = "n" THEN <<"\n">>
          ELSE IF s[2] = "r" THEN <<"\r">>
          ELSE IF s[2] = "t" THEN <<"\t">>
          ELSE IF s[2] \in {"\\", "'", "\""} THEN <<s[2]>>
          ELSE <<"\\", s[2]>>) \o LiteralValue(SubSeq(s, 3, Len(s)))

\* unsafe_string: a Result whose val is a str
unsafe_string(s0) ==
    LET s == Replace(UnquoteFrom(s0, 1), <<"'">>, <<"\\", "x", "2", "7">>)
    IN IF LiteralBad(s) THEN Raise("SyntaxError")
       ELSE Ok(StrV(LiteralValue(s)))

safe_content(s) == QuoteFrom(s, 1)

unsafe_content(s) == UnquoteFrom(s, 1)

(***************************************************************************)
(* Objects.  heap[a] is the compound object at address a (id(obj) = a):    *)
(* a list, a tuple, a dict or a class instance.  items holds the elements  *)
(* of a sequence (in v), the pairs of a dict (k, v) in insertion order or  *)
(* the __dict__ of an instance (name, v) in insertion order.               *)
(***************************************************************************)
Item(name, k, v) == [name |-> name, k |-> k, v |-> v]

Elem(v) == Item("", NoneV, v)

Field(name, v) == Item(name, NoneV, v)

Pair(k, v) == Item("", k, v)

Obj(kind, cls, items) == [kind |-> kind, cls |-> cls, items |-> items]

\* bool(obj): an empty list, tuple or dict is false; the model's classes
\* define neither __bool__ nor __len__
Truthy(o) == o.kind \notin {"list", "tuple", "dict"} \/ Len(o.items) > 0

(***************************************************************************)
(* The identity table VISITED (nosis.py:181-196), a dict: a sequence of    *)
(* entries in insertion order.  The encoder keys it by id(thing) (kind     *)
(* "id"): the address of a compound, and for a scalar the scalar itself,   *)
(* as if equal scalars were one object.  The decoder keys it by the text   *)
(* of an id attribute (kind "str"), held as the number it spells, 0 for    *)
(* the empty text.                                                         *)
(***************************************************************************)
VEntry(kind, key, val) == [kind |-> kind, key |-> key, val |-> val]

VIndex(V, kind, key) ==
    LET hits == {i \in 1..Len(V) : V[i].kind = kind /\ V[i].key = key}
    IN IF hits = {} THEN 0 ELSE CHOOSE i \in hits : TRUE

VHas(V, kind, key) == VIndex(V, kind, key) # 0

VGet(V, kind, key) == V[VIndex(V, kind, key)].val

\* VISITED[key] = val
VPut(V, kind, key, val) ==
    IF VHas(V, kind, key)
    THEN [V EXCEPT ![VIndex(V, kind, key)] = VEntry(kind, key, val)]
    ELSE Append(V, VEntry(kind, key, val))

(***************************************************************************)
(* Tags.  One record per tag the encoder writes (or a hand-written         *)
(* document holds): close marks an end tag, sc a self-closed tag; id and   *)
(* refid are 0 when the attribute is absent; value is the raw text of the  *)
(* value attribute (hasvalue tells an empty one from an absent one) and    *)
(* body the raw text that follows the start tag.                           *)
(***************************************************************************)
Tag(el, close, sc, name, family, type, id, refid, hasvalue, value, body, cls) ==
    [el |-> el, close |-> close, sc |-> sc, name |-> name, family |-> family,
     type |-> type, id |-> id, refid |-> refid, hasvalue |-> hasvalue,
     value |-> value, body |-> body, cls |-> cls]

CloseTag(el) == Tag(el, TRUE, FALSE, "", "", "", 0, 0, FALSE, <<>>, <<>>, "")

OpenTag(el) == Tag(el, FALSE, FALSE, "", "", "", 0, 0, FALSE, <<>>, <<>>, "")

\* <PyObject module=".." class="cls" id="a">  (nosis.py:296-306)
PyObjectTag(cls, a) == [OpenTag("PyObject") EXCEPT !.cls = cls, !.id = a]

\* start_tag of _attr_tag/_item_tag/_entry_tag (nosis.py:368-389) completed
\* for a scalar by _tag_completer (nosis.py:488-532); TYPE_IN_BODY is 0 for
\* every type, so the text always goes to value=
ScalarTag(el, name, type, value) ==
    [OpenTag(el) EXCEPT !.sc = TRUE, !.name = name, !.type = type,
                        !.hasvalue = (type # "None"), !.value = value]

\* the tag _tag_compound starts (nosis.py:392-403): a self-closed refid tag
\* when do_copy is 0, else a start tag with id
CompoundTag(el, name, type, a, do_copy) ==
    IF do_copy
    THEN [OpenTag(el) EXCEPT !.name = name, !.type = type, !.id = a]
    ELSE [OpenTag(el) EXCEPT !.sc = TRUE, !.name = name, !.type = type, !.refid = a]

\* the characters of an attribute value or of character data once the XML
\* parser has replaced the five predefined entities, in one pass
\* (minidom.parse, nosis.py:190)
RECURSIVE XmlText(_)
XmlText(s) ==
    IF s = <<>> THEN <<>>
    ELSE LET hits == {i \in 1..Len(XML_QUOTES) :
                         /\ Len(s) >= Len(XML_QUOTES[i][2])
                         /\ SubSeq(s, 1, Len(XML_QUOTES[i][2])) = XML_QUOTES[i][2]}
         IN IF hits = {} THEN <<s[1]>> \o XmlText(Tail(s))
            ELSE LET i == CHOOSE x \in hits : TRUE
                 IN XML_QUOTES[i][1] \o XmlText(SubSeq(s, Len(XML_QUOTES[i][2]) + 1, Len(s)))

\* the end-of-line handling of the parser: \r\n and \r are read as \n
RECURSIVE LineEnds(_)
LineEnds(s) ==
    IF s = <<>> THEN <<>>
    ELSE IF s[1] # "\r" THEN <<s[1]>> \o LineEnds(Tail(s))
    ELSE IF Len(s) >= 2 /\ s[2] = "\n" THEN <<"\n">> \o LineEnds(SubSeq(s, 3, Len(s)))
    ELSE <<"\n">> \o LineEnds(Tail(s))

\* node.childNodes[0].nodeValue: the character data of an element as the
\* parser gives it (minidom.parse, nosis.py:190, read at nosis.py:239)
XmlBody(s) == XmlText(LineEnds(s))

\* node.getAttribute('value'): an attribute value as the parser gives it,
\* each literal end of line or tab read as a space (minidom.parse,
\* nosis.py:190, read at nosis.py:233)
XmlAttr(s) ==
    XmlText([i \in 1..Len(LineEnds(s)) |->
                IF LineEnds(s)[i] \in {"\n", "\t"} THEN " " ELSE LineEnds(s)[i]])

\* a '&' that starts none of the five entities, or a raw '<', is not
\* well-formed: minidom.parse raises ExpatError
RECURSIVE XmlBad(_)
XmlBad(s) ==
    IF s = <<>> THEN FALSE
    ELSE IF s[1] = "<" THEN TRUE
    ELSE IF s[1] # "&" THEN XmlBad(Tail(s))
    ELSE LET hits == {i \in 1..Len(XML_QUOTES) :
                         /\ Len(s) >= Len(XML_QUOTES[i][2])
                         /\ SubSeq(s, 1, Len(XML_QUOTES[i][2])) = XML_QUOTES[i][2]}
         IN IF hits = {} THEN TRUE
            ELSE LET i == CHOOSE x \in hits : TRUE
                 IN XmlBad(SubSeq(s, Len(XML_QUOTES[i][2]) + 1, Len(s)))

(***************************************************************************)
(* State.                                                                  *)
(***************************************************************************)
VARIABLES
    heap,         \* the objects of the process, by address
    heap0,        \* the heap as the host built it, before any call
    VISITED,      \* the module-global identity table (nosis.py:183)
    CLASS_STORE,  \* the names registered in the class registry (nosis.py:200)
    root,         \* root[p]: the address of the instance caller p dumps
    ext,          \* a document the host holds, not written by xmldump
    budget,       \* budget[p]: top-level calls caller p may still make
    pc,           \* pc[p]: "idle", or the call in progress: "dump", "load"
    stack,        \* stack[p]: the frames of the recursion in progress
    out,          \* out[p]: the tags xmldump has produced
    omit,         \* omit[p]: the omit argument of the dump
    src,          \* src[p]: the document xmlload is reading
    pos,          \* pos[p]: the next tag of src[p] the decoder looks at
    mark,         \* mark[p]: heap size and registry when the call started
    res           \* res[p]: how the last finished call ended

vars == <<heap, heap0, VISITED, CLASS_STORE, root, ext, budget, pc, stack, out,
          omit, src, pos, mark, res>>

Procs == {1, 2}

Frame(tag, a, i, part, cont) == [tag |-> tag, a |-> a, i |-> i, part |-> part, cont |-> cont]

\* how a call ended: the error raised or "", the object xmlload returned, and
\* for an xmldump that returned, the text it wrote and the omit it was given
Outcome(op, err, val, own) ==
    [op |-> op, err |-> err, val |-> val, own |-> own, doc |-> <<>>, om |-> {}]

Mark == [heaplen |-> Len(heap), store |-> CLASS_STORE]

Top(p) == stack[p][Len(stack[p])]

\* the stack with its top frame replaced
SetTop(st, f) == [st EXCEPT ![Len(st)] = f]

Pop(st) == SubSeq(st, 1, Len(st) - 1)

(***************************************************************************)
(* The encoder.                                                            *)
(***************************************************************************)
\* TYPE name _tag_completer writes for a thing (nosis.py:488-574)
TypeName(h, v) ==
    IF v.t = "None" THEN "None"
    ELSE IF v.t = "bool" THEN (IF v.n = 1 THEN "True" ELSE "False")
    ELSE IF v.t \in {"int", "float", "complex"} THEN "numeric"
    ELSE IF v.t = "str" THEN "string"
    ELSE h[v.n].kind

\* do_copy of _tag_compound (nosis.py:397-403): `if VISITED.get(idt)` tests
\* the truth value of the object the table holds
_tag_compound(V, h, a) ==
    ~(VHas(V, "id", RefV(a)) /\ Truthy(h[VGet(V, "id", RefV(a)).n]))

\* a _tag_completer that enters no compound in VISITED before its subitems
RegisteredAfterItems(kind) == FALSE

\* the kinds _tag_completer enters in VISITED before it pickles their
\* subitems (nosis.py:557, 569); a tuple is entered only on the way out
RegisteredBeforeItems(kind) == kind \in {"list", "dict"}

\* a pickle_instance that skips no field
OmitNothing(om, key) == FALSE

\* `if omit and key in omit: continue` of pickle_instance (nosis.py:334)
OmitField(om, key) == om # {} /\ key \in om

\* obj.__dict__ as pickle_instance leaves it (nosis.py:326-336): it only reads
StuffAfter(o, om) == o

\* _tag_completer up to the point where it pickles the subitems of thing
\* (nosis.py:480-574), and to its end when there are none: the tag it starts,
\* the table it leaves, whether it goes on into the subitems, or the error
_tag_completer(V, h, thing, el, name) ==
    IF thing.t = "None"
    THEN [err |-> "", tag |-> ScalarTag(el, name, "None", <<>>),
          V |-> VPut(V, "id", thing, thing), descend |-> FALSE]
    ELSE IF thing.t = "bool"
    THEN [err |-> "", tag |-> ScalarTag(el, name, TypeName(h, thing), <<>>),
          V |-> VPut(V, "id", thing, thing), descend |-> FALSE]
    ELSE IF thing.t \in {"int", "float", "complex"}
    THEN [err |-> "", tag |-> ScalarTag(el, name, "numeric", ntoa(thing)),
          V |-> VPut(V, "id", thing, thing), descend |-> FALSE]
    ELSE IF thing.t = "str"
    THEN [err |-> "", tag |-> ScalarTag(el, name, "string", safe_string(thing.s)),
          V |-> VPut(V, "id", thing, thing), descend |-> FALSE]
    ELSE IF h[thing.n].kind \in {"tuple", "list", "dict"}
    THEN LET kind == h[thing.n].kind
             do_copy == _tag_compound(V, h, thing.n)
         IN [err |-> "",
             tag |-> CompoundTag(el, name, kind, thing.n, do_copy),
             V |-> IF RegisteredBeforeItems(kind) \/ ~do_copy
                   THEN VPut(V, "id", thing, thing)
                   ELSE V,
             descend |-> do_copy]
    ELSE [err |-> "ValueError: Non-handled type", tag |-> OpenTag(el),
          V |-> V, descend |-> FALSE]

EndCall(p, op, err, val, own) ==
    /\ pc' = [pc EXCEPT ![p] = "idle"]
    /\ stack' = [stack EXCEPT ![p] = <<>>]
    /\ res' = [res EXCEPT ![p] =
                  IF op = "dump" /\ err = ""
                  THEN [Outcome(op, err, val, own) EXCEPT !.doc = out'[p], !.om = omit[p]]
                  ELSE Outcome(op, err, val, own)]

\* a top-level call that goes on with the table the call before it left
StaleTable(V, first) == V \o first

\* `VISITED = {}` of thing_from_dom (nosis.py:189) and `VISITED = {id_: py_obj}`
\* of _pickle_toplevel_obj (nosis.py:276): the table a top-level call starts
\* with, whatever the table V held before
FreshTable(V, first) == first

\* xmldump -> _pickle_toplevel_obj (nosis.py:243-309) up to pickle_instance
XmlDump(p, om) ==
    /\ pc[p] = "idle"
    /\ budget[p] > 0
    /\ budget' = [budget EXCEPT ![p] = @ - 1]
    /\ VISITED' = FreshTable(VISITED, <<VEntry("id", RefV(root[p]), RefV(root[p]))>>)
    /\ out' = [out EXCEPT ![p] = <<PyObjectTag(heap[root[p]].cls, root[p])>>]
    /\ omit' = [omit EXCEPT ![p] = om]
    /\ mark' = [mark EXCEPT ![p] = Mark]
    /\ pc' = [pc EXCEPT ![p] = "dump"]
    /\ stack' = [stack EXCEPT ![p] =
                    <<Frame(PyObjectTag(heap[root[p]].cls, root[p]), root[p], 1, "k", NoneV)>>]
    /\ UNCHANGED <<heap, heap0, CLASS_STORE, root, ext, src, pos, res>>

\* one _tag_completer call made from the frame f for the thing v, after f
\* has been moved on to f2
Complete(p, f2, v, el, name, pre) ==
    LET r == _tag_completer(VISITED, heap, v, el, name)
    IN IF r.err # ""
       THEN /\ EndCall(p, "dump", r.err, NoneV, FALSE)
            /\ UNCHANGED <<VISITED, out>>
       ELSE IF r.descend /\ Len(stack[p]) >= MaxDepth
       THEN /\ EndCall(p, "dump", "RecursionError", NoneV, FALSE)
            /\ UNCHANGED <<VISITED, out>>
       ELSE /\ VISITED' = r.V
            /\ out' = [out EXCEPT ![p] = @ \o pre \o <<r.tag>>]
            /\ stack' = [stack EXCEPT ![p] =
                            IF r.descend
                            THEN Append(SetTop(@, f2), Frame(r.tag, v.n, 1, "k", NoneV))
                            ELSE SetTop(@, f2)]
            /\ UNCHANGED <<pc, res>>

\* pickle_instance (nosis.py:312-338): one turn of its loop over __dict__
PickleField(p) ==
    /\ pc[p] = "dump"
    /\ Top(p).tag.el = "PyObject"
    /\ Top(p).i <= Len(heap[Top(p).a].items)
    /\ LET f == Top(p)
           it == heap[f.a].items[f.i]
           f2 == [f EXCEPT !.i = @ + 1]
       IN IF OmitField(omit[p], it.name)
          THEN /\ stack' = [stack EXCEPT ![p] = SetTop(@, f2)]
               /\ UNCHANGED <<VISITED, out, pc, res>>
          ELSE Complete(p, f2, it.v, "attr", it.name, <<>>)
    /\ heap' = [heap EXCEPT ![Top(p).a] = StuffAfter(@, omit[p])]
    /\ UNCHANGED <<heap0, CLASS_STORE, root, ext, budget, omit, src, pos, mark>>

\* the end of pickle_instance and of _pickle_toplevel_obj (nosis.py:308-309)
PickleDone(p) ==
    /\ pc[p] = "dump"
    /\ Top(p).tag.el = "PyObject"
    /\ Top(p).i > Len(heap[Top(p).a].items)
    /\ out' = [out EXCEPT ![p] = Append(@, CloseTag("PyObject"))]
    /\ EndCall(p, "dump", "", NoneV, FALSE)
    /\ UNCHANGED <<heap, heap0, VISITED, CLASS_STORE, root, ext, budget, omit, src,
                   pos, mark>>

\* one _item_tag of the loop over a tuple or a list (nosis.py:547, 559)
CompleteItem(p) ==
    /\ pc[p] = "dump"
    /\ Top(p).tag.el # "PyObject"
    /\ heap[Top(p).a].kind \in {"tuple", "list"}
    /\ Top(p).i <= Len(heap[Top(p).a].items)
    /\ LET f == Top(p)
       IN Complete(p, [f EXCEPT !.i = @ + 1], heap[f.a].items[f.i].v, "item", "", <<>>)
    /\ UNCHANGED <<heap, heap0, CLASS_STORE, root, ext, budget, omit, src, pos, mark>>

\* _entry_tag of the loop over a dict (nosis.py:380-389, 571): the key block,
\* then the val block, then the end of the entry
CompleteEntry(p) ==
    /\ pc[p] = "dump"
    /\ Top(p).tag.el # "PyObject"
    /\ heap[Top(p).a].kind = "dict"
    /\ Top(p).i <= Len(heap[Top(p).a].items)
    /\ LET f == Top(p)
           it == heap[f.a].items[f.i]
       IN IF f.part = "k"
          THEN Complete(p, [f EXCEPT !.part = "v"], it.k, "key", "", <<OpenTag("entry")>>)
          ELSE IF f.part = "v"
          THEN Complete(p, [f EXCEPT !.part = "e"], it.v, "val", "", <<>>)
          ELSE /\ out' = [out EXCEPT ![p] = Append(@, CloseTag("entry"))]
               /\ stack' = [stack EXCEPT ![p] = SetTop(@, [f EXCEPT !.part = "k", !.i = @ + 1])]
               /\ UNCHANGED <<VISITED, pc, res>>
    /\ UNCHANGED <<heap, heap0, CLASS_STORE, root, ext, budget, omit, src, pos, mark>>

\* the end of _tag_completer for a compound that was copied: the close tag
\* and VISITED[id(orig_thing)] = orig_thing (nosis.py:579-584)
CompleteClose(p) ==
    /\ pc[p] = "dump"
    /\ Top(p).tag.el # "PyObject"
    /\ Top(p).i > Len(heap[Top(p).a].items)
    /\ out' = [out EXCEPT ![p] = Append(@, CloseTag(Top(p).tag.el))]
    /\ VISITED' = VPut(VISITED, "id", RefV(Top(p).a), RefV(Top(p).a))
    /\ stack' = [stack EXCEPT ![p] = Pop(@)]
    /\ UNCHANGED <<heap, heap0, CLASS_STORE, root, ext, budget, omit, src, pos,
                   mark, pc, res>>

(***************************************************************************)
(* The decoder.                                                            *)
(***************************************************************************)
\* TYPENAMES.get(typename) (nosis.py:450-463), "" when the name is not a key
TYPENAMES(typename) ==
    IF typename = "None" THEN "none"
    ELSE IF typename = "dict" THEN "map"
    ELSE IF typename \in {"list", "tuple"} THEN "seq"
    ELSE IF typename \in {"numeric", "string", "bytes"} THEN "atom"
    ELSE IF typename = "PyObject" THEN "obj"
    ELSE IF typename \in {"function", "class"} THEN "lang"
    ELSE IF typename \in {"True", "False"} THEN "uniq"
    ELSE ""

\* _fix_family (nosis.py:466-477): the family in val.s
_fix_family(family, typename) ==
    IF family # "" THEN Ok(StrV(<<family>>))
    ELSE IF TYPENAMES(typename) # "" THEN Ok(StrV(<<TYPENAMES(typename)>>))
    ELSE Raise("ValueError: family= must be given")

\* get_node_valuetext (nosis.py:224-240): which text is read depends only on
\* whether the tag has a value attribute
get_node_valuetext(tag) ==
    IF tag.hasvalue THEN unsafe_string(XmlAttr(tag.value))
    ELSE IF tag.body # <<>> THEN Ok(StrV(unsafe_content(XmlBody(tag.body))))
    ELSE Ok(StrV(<<>>))

\* an obj_from_node that makes the class it does not find ("from air") and
\* keeps it in the registry
obj_from_air(store, classname) == [err |-> "", store |-> store \cup {classname}]

\* obj_from_node (nosis.py:209-221): the error, or "" when klass.__new__ is
\* reached; store is the registry it leaves
obj_from_node(store, classname) ==
    IF classname \in store
    THEN [err |-> "", store |-> store]
    ELSE [err |-> "ValueError: Cannot create class", store |-> store]

\* a lookup that gives None for an id the table does not hold, as
\* VISITED.get(ref_id) would
ResolveOrNone(V, refid) ==
    IF VHas(V, "str", IntV(refid)) THEN [err |-> "", val |-> VGet(V, "str", IntV(refid))]
    ELSE [err |-> "", val |-> NoneV]

\* `VISITED[ref_id]` (nosis.py:611, 613)
ResolveRef(V, refid) ==
    IF VHas(V, "str", IntV(refid)) THEN Ok(VGet(V, "str", IntV(refid)))
    ELSE Raise("KeyError")

\* a decoder that registers no object under the id of its node
_save_nothing(V, tag, obj) == V

\* _save_obj_with_id (nosis.py:193-196)
_save_obj_with_id(V, tag, obj) ==
    IF tag.id # 0 THEN VPut(V, "str", IntV(tag.id), obj) ELSE V

\* the tag that closes the element started at src[i]
RECURSIVE CloseAfter(_, _, _)
CloseAfter(s, i, depth) ==
    IF s[i].close
    THEN (IF depth = 0 THEN i ELSE CloseAfter(s, i + 1, depth - 1))
    ELSE CloseAfter(s, i + 1, IF s[i].sc THEN depth ELSE depth + 1)

\* the place after the element started at src[i]
After(s, i) == IF s[i].sc THEN i + 1 ELSE CloseAfter(s, i + 1, 0) + 1

HeapResult(err, h, val) == [err |-> err, heap |-> h, val |-> val]

\* obj.__dict__[name] = val: an existing name keeps its place
SetField(items, name, val) ==
    IF \E i \in 1..Len(items) : items[i].name = name
    THEN [i \in 1..Len(items) |-> IF items[i].name = name THEN Field(name, val) ELSE items[i]]
    ELSE Append(items, Field(name, val))

\* d[key] = val: an existing key keeps its place
SetPair(items, key, val) ==
    IF \E i \in 1..Len(items) : items[i].k = key
    THEN [i \in 1..Len(items) |-> IF items[i].k = key THEN Pair(key, val) ELSE items[i]]
    ELSE Append(items, Pair(key, val))

\* setattr(container, name, val)
SetAttr(h, cont, name, val) ==
    IF cont.t = "ref" /\ h[cont.n].kind = "inst"
    THEN HeapResult("", [h EXCEPT ![cont.n].items =
                            SetField(@, name, val)], val)
    ELSE HeapResult("AttributeError", h, val)

\* container.append(val)
ListAppend(h, cont, val) ==
    IF cont.t = "ref" /\ h[cont.n].kind = "list"
    THEN HeapResult("", [h EXCEPT ![cont.n].items = Append(@, Elem(val))], val)
    ELSE HeapResult("AttributeError", h, val)

\* hash(v) succeeds: a list or a dict has no hash, a tuple has one when its
\* items have (to the depth the model nests tuples)
RECURSIVE Hashable(_, _, _)
Hashable(h, v, fuel) ==
    \/ v.t # "ref"
    \/ h[v.n].kind = "inst"
    \/ /\ h[v.n].kind = "tuple"
       /\ fuel > 0
       /\ \A i \in 1..Len(h[v.n].items) : Hashable(h, h[v.n].items[i].v, fuel - 1)

\* container[key] = val
DictSet(h, cont, key, val) ==
    IF cont.t = "ref" /\ h[cont.n].kind = "dict"
    THEN IF Hashable(h, key, MaxDepth)
         THEN HeapResult("", [h EXCEPT ![cont.n].items =
                                 SetPair(@, key, val)], val)
         ELSE HeapResult("TypeError", h, val)
    ELSE HeapResult("TypeError", h, val)

\* `setattr(container, node_name, v)` for an attr, `container.append(v)` for
\* an item, a key or a val (nosis.py:610-613, 684-687)
StoreInto(h, cont, el, name, val) ==
    IF el = "attr" THEN SetAttr(h, cont, name, val) ELSE ListAppend(h, cont, val)

\* tuple(node_val)
TupleOf(h, v) ==
    IF v.t = "ref" /\ h[v.n].kind = "list"
    THEN HeapResult("", Append(h, Obj("tuple", "", h[v.n].items)), RefV(Len(h) + 1))
    ELSE IF v.t = "ref" /\ h[v.n].kind = "dict"
    THEN HeapResult("", Append(h, Obj("tuple", "",
                                      [i \in 1..Len(h[v.n].items) |-> Elem(h[v.n].items[i].k)])),
                    RefV(Len(h) + 1))
    ELSE IF v.t = "str"
    THEN HeapResult("", Append(h, Obj("tuple", "",
                                      [i \in 1..Len(v.s) |-> Elem(StrV(<<v.s[i]>>))])),
                    RefV(Len(h) + 1))
    ELSE HeapResult("TypeError", h, v)

\* what a call of _thing_from_dom leaves for one node: the error raised
\* ("" for none), the heap, the table, and whether the children of the node
\* are still to be read
NodeOut(err, h, V, enter) == [err |-> err, heap |-> h, V |-> V, enter |-> enter]

\* `node_val = aton(node_val)` (nosis.py:669), r being what aton gives
AtonThing(h, r) == HeapResult(r.err, h, r.val)

\* step 2 of _thing_from_dom (nosis.py:660-682): the exact thing
ExactThing(h, type, node_val) ==
    IF type = "None" THEN HeapResult("", h, NoneV)
    ELSE IF type = "numeric"
    THEN (IF node_val.t = "str"
          THEN AtonThing(h, aton(node_val.s))
          ELSE HeapResult("AttributeError", h, node_val))
    ELSE IF type \in {"string", "list", "dict", "True", "False"}
    THEN HeapResult("", h, node_val)
    ELSE IF type = "tuple" THEN TupleOf(h, node_val)
    ELSE HeapResult("ValueError: Unknown type", h, node_val)

\* a store s into the container that no _save_obj_with_id follows: the refid
\* branch and the entry branch (nosis.py:610-616, 691-695)
NotSaved(V, s) == NodeOut(s.err, s.heap, V, FALSE)

\* _save_obj_with_id(node, node_val) once the store s of the exact thing
\* into the container is done (nosis.py:684-689)
SaveStored(V, tag, s) ==
    IF s.err # "" THEN NodeOut(s.err, s.heap, V, FALSE)
    ELSE NodeOut("", s.heap, _save_obj_with_id(V, tag, s.val), FALSE)

\* the store of the exact thing x into the container (nosis.py:684-687)
StoreExact(V, tag, cont, x) ==
    IF x.err # "" THEN NodeOut(x.err, x.heap, V, FALSE)
    ELSE SaveStored(V, tag, StoreInto(x.heap, cont, tag.el, tag.name, x.val))

\* what _thing_from_dom does with node_val once step 1 has it: step 2, then
\* the store into the container, then _save_obj_with_id (nosis.py:660-689)
FinishNode(h, V, tag, cont, node_val) ==
    StoreExact(V, tag, cont, ExactThing(h, tag.type, node_val))

\* step 1 of _thing_from_dom (nosis.py:622-651) for a node of the given
\* family, text being what get_node_valuetext gave
BasicThing(h, V, tag, cont, family, text) ==
    IF text.err # "" THEN NodeOut(text.err, h, V, FALSE)
    ELSE IF family \in {"seq", "map"}
    THEN NodeOut("", Append(h, Obj(IF family = "seq" THEN "list" ELSE "dict", "", <<>>)),
                 _save_obj_with_id(V, tag, RefV(Len(h) + 1)), TRUE)
    ELSE IF family \notin {"none", "atom", "uniq"}
    THEN NodeOut("ValueError: Unknown family", h, V, FALSE)
    ELSE IF family = "uniq" /\ tag.type \notin {"True", "False"}
    THEN NodeOut("ValueError: Unknown uniq type", h, V, FALSE)
    ELSE FinishNode(h, V, tag, cont,
                    IF family = "atom" THEN text.val
                    ELSE IF family = "uniq" THEN BoolV(tag.type = "True")
                    ELSE NoneV)

\* a node without refid, fam being what _fix_family gave (nosis.py:618-622)
FreshNode(h, V, tag, cont, fam) ==
    IF fam.err # "" THEN NodeOut(fam.err, h, V, FALSE)
    ELSE BasicThing(h, V, tag, cont, fam.val.s[1], get_node_valuetext(tag))

\* a node with a refid, ref being what VISITED[ref_id] gave (nosis.py:606-616)
RefNode(h, V, tag, cont, ref) ==
    IF ref.err # "" THEN NodeOut(ref.err, h, V, FALSE)
    ELSE NotSaved(V, StoreInto(h, cont, tag.el, tag.name, ref.val))

\* the branch of _thing_from_dom for an attr, item, key or val node
\* (nosis.py:601-689)
ThingNode(h, V, tag, cont) ==
    IF tag.refid # 0
    THEN RefNode(h, V, tag, cont, ResolveRef(V, tag.refid))
    ELSE FreshNode(h, V, tag, cont, _fix_family(tag.family, tag.type))

\* the entry branch once keyval is back (nosis.py:693-694)
EntryPut(h, cont, keyval) ==
    IF keyval.t = "ref" /\ h[keyval.n].kind = "list"
    THEN (IF Len(h[keyval.n].items) >= 2
          THEN DictSet(h, cont, h[keyval.n].items[1].v, h[keyval.n].items[2].v)
          ELSE HeapResult("IndexError", h, NoneV))
    ELSE HeapResult("TypeError", h, NoneV)

DocBad(doc) == \E i \in 1..Len(doc) : XmlBad(doc[i].value) \/ XmlBad(doc[i].body)

\* xmlload -> thing_from_dom (nosis.py:186-190, 257-265): the table is
\* rebound to a new dict, then minidom parses the whole document
XmlLoad(p, own) ==
    /\ pc[p] = "idle"
    /\ budget[p] > 0
    /\ own => (res[p].op = "dump" /\ res[p].err = "")
    /\ budget' = [budget EXCEPT ![p] = @ - 1]
    /\ VISITED' = FreshTable(VISITED, <<>>)
    /\ mark' = [mark EXCEPT ![p] = Mark]
    /\ LET doc == IF own THEN out[p] ELSE ext
       IN /\ src' = [src EXCEPT ![p] = doc]
          /\ IF DocBad(doc)
             THEN /\ EndCall(p, "load", "ExpatError", NoneV, own)
                  /\ UNCHANGED pos
             ELSE /\ pc' = [pc EXCEPT ![p] = "load"]
                  /\ stack' = [stack EXCEPT ![p] =
                                 <<Frame(OpenTag("#document"), 0, 0, IF own THEN "own" ELSE "ext", NoneV)>>]
                  /\ pos' = [pos EXCEPT ![p] = 1]
                  /\ UNCHANGED res
    /\ UNCHANGED <<heap, heap0, CLASS_STORE, root, ext, out, omit>>

IsOwn(p) == stack[p][1].part = "own"

AtOpenTag(p) ==
    /\ pc[p] = "load"
    /\ pos[p] <= Len(src[p])
    /\ ~src[p][pos[p]].close
    /\ Top(p).part # "sc"

Fail(p, err) == EndCall(p, "load", err, NoneV, IsOwn(p))

\* a frame for the children of tag; a self-closed tag has none, and the
\* frame is left at once
Enter(p, tag, a, cont) ==
    /\ stack' = [stack EXCEPT ![p] =
                    Append(@, Frame(tag, a, 0, IF tag.sc THEN "sc" ELSE "", cont))]
    /\ pos' = [pos EXCEPT ![p] = IF tag.sc THEN @ ELSE @ + 1]

\* a PyObject node: unpickle_instance up to its call of _thing_from_dom
\* (nosis.py:593-594, 341-351)
LoadPyObject(p) ==
    /\ AtOpenTag(p)
    /\ src[p][pos[p]].el = "PyObject"
    /\ LET tag == src[p][pos[p]]
           o == obj_from_node(CLASS_STORE, tag.cls)
           pyobj == Len(heap) + 1
           raw == Len(heap) + 2
       IN /\ CLASS_STORE' = o.store
          /\ IF o.err # ""
             THEN /\ heap' = heap
                  /\ Fail(p, o.err)
                  /\ UNCHANGED <<VISITED, pos>>
             ELSE /\ heap' = heap \o <<Obj("inst", tag.cls, <<>>), Obj("inst", "_EmptyClass", <<>>)>>
                  /\ VISITED' = _save_obj_with_id(VISITED, tag, RefV(pyobj))
                  /\ Enter(p, tag, pyobj, RefV(raw))
                  /\ UNCHANGED <<pc, res>>
    /\ UNCHANGED <<heap0, root, ext, budget, out, omit, src, mark>>

\* an attr, item, key or val node (nosis.py:601-689), up to the call of
\* _thing_from_dom for the children of a seq or a map, and to its end for
\* every other node
LoadNode(p) ==
    /\ AtOpenTag(p)
    /\ src[p][pos[p]].el \in {"attr", "item", "key", "val"}
    /\ \E r \in {ThingNode(heap, VISITED, src[p][pos[p]], Top(p).cont)} :
          IF r.err # ""
          THEN /\ Fail(p, r.err)
               /\ UNCHANGED <<heap, VISITED, pos>>
          ELSE /\ heap' = r.heap
               /\ VISITED' = r.V
               /\ IF r.enter
                  THEN Enter(p, src[p][pos[p]], 0, RefV(Len(r.heap)))
                  ELSE /\ pos' = [pos EXCEPT ![p] = After(src[p], @)]
                       /\ UNCHANGED stack
               /\ UNCHANGED <<pc, res>>
    /\ UNCHANGED <<heap0, CLASS_STORE, root, ext, budget, out, omit, src, mark>>

\* an entry node: keyval = _thing_from_dom(node, []) (nosis.py:691-692)
LoadEntry(p) ==
    /\ AtOpenTag(p)
    /\ src[p][pos[p]].el = "entry"
    /\ heap' = Append(heap, Obj("list", "", <<>>))
    /\ Enter(p, src[p][pos[p]], 0, RefV(Len(heap) + 1))
    /\ UNCHANGED <<heap0, VISITED, CLASS_STORE, root, ext, budget, out, omit, src,
                   mark, pc, res>>

\* any other element (nosis.py:697-698)
LoadOther(p) ==
    /\ AtOpenTag(p)
    /\ src[p][pos[p]].el \notin {"PyObject", "attr", "item", "key", "val", "entry"}
    /\ Fail(p, "ValueError: Element is not in PyObjects.dtd")
    /\ UNCHANGED <<heap, heap0, VISITED, CLASS_STORE, root, ext, budget, out, omit,
                   src, pos, mark>>

\* _thing_from_dom returns container to the caller that asked for the
\* children of a node: unpickle_instance (nosis.py:351-364, 594-597), the seq
\* or map branch (nosis.py:634, 640, then 660-689) or the entry branch
\* (nosis.py:692-694)
LoadClose(p) ==
    /\ pc[p] = "load"
    /\ Len(stack[p]) >= 2
    /\ Top(p).part = "sc" \/ (pos[p] <= Len(src[p]) /\ src[p][pos[p]].close)
    /\ \E f \in {Top(p)}, parent \in {stack[p][Len(stack[p]) - 1]} :
          IF f.tag.el = "PyObject"
          THEN /\ heap' = [heap EXCEPT ![f.a].items = heap[f.cont.n].items]
               /\ VISITED' = VPut(VISITED, "str", IntV(f.tag.id), RefV(f.a))
               /\ stack' = [stack EXCEPT ![p] =
                              SetTop(Pop(@), [parent EXCEPT !.cont = RefV(f.a)])]
               /\ pos' = [pos EXCEPT ![p] = @ + 1]
               /\ UNCHANGED <<pc, res>>
          ELSE \E r \in {IF f.tag.el = "entry"
                         THEN NotSaved(VISITED, EntryPut(heap, parent.cont, f.cont))
                         ELSE FinishNode(heap, VISITED, f.tag, parent.cont, f.cont)} :
                  IF r.err # ""
                  THEN /\ Fail(p, r.err)
                       /\ UNCHANGED <<heap, VISITED, pos>>
                  ELSE /\ heap' = r.heap
                       /\ VISITED' = r.V
                       /\ stack' = [stack EXCEPT ![p] = Pop(@)]
                       /\ pos' = [pos EXCEPT ![p] = @ + 1]
                       /\ UNCHANGED <<pc, res>>
    /\ UNCHANGED <<heap0, CLASS_STORE, root, ext, budget, out, omit, src, mark>>

\* thing_from_dom returns what _thing_from_dom made of the document
LoadReturn(p) ==
    /\ pc[p] = "load"
    /\ Len(stack[p]) = 1
    /\ pos[p] > Len(src[p])
    /\ EndCall(p, "load", "", Top(p).cont, IsOwn(p))
    /\ UNCHANGED <<heap, heap0, VISITED, CLASS_STORE, root, ext, budget, out, omit,
                   src, pos, mark>>

\* add_class_to_store (nosis.py:203-206); klass is "" for None, else the
\* name of the class
add_class_to_store(p, classname, klass) ==
    /\ pc[p] = "idle"
    /\ budget[p] > 0
    /\ budget' = [budget EXCEPT ![p] = @ - 1]
    /\ CLASS_STORE' = IF classname # "" /\ klass # ""
                      THEN CLASS_STORE \cup {classname}
                      ELSE CLASS_STORE
    /\ UNCHANGED <<heap, heap0, VISITED, root, ext, pc, stack, out, omit, src, pos,
                   mark, res>>

(***************************************************************************)
(* The inputs: the graphs the host builds and the documents it holds.      *)
(***************************************************************************)
FieldNames == <<"p", "q">>

SeqsUpTo(S, n) == UNION {[1..k -> S] : k \in 0..n}

\* the values a slot of a drawn graph of k containers holds: a scalar, the
\* root instance (address 1) or a container (addresses 2..k+1)
GraphVals(k) == {IntV(1)} \cup {RefV(a) : a \in 1..(k + 1)}

DictKeys == {IntV(1), StrV(<<"p">>)}

ListObjs(V) ==
    {Obj("list", "", [i \in 1..Len(s) |-> Elem(s[i])]) : s \in SeqsUpTo(V, MaxSlots)}

\* CPython keeps one empty tuple; the drawn tuples are not empty
TupleObjs(V) ==
    {Obj("tuple", "", [i \in 1..Len(s) |-> Elem(s[i])]) : s \in SeqsUpTo(V, MaxSlots) \ {<<>>}}

DictObjs(V) ==
    {Obj("dict", "", [i \in 1..Len(s) |-> Pair(s[i][1], s[i][2])]) :
        s \in {x \in SeqsUpTo(DictKeys \X V, MaxSlots) :
                  \A i, j \in 1..Len(x) : i # j => x[i][1] # x[j][1]}}

InstObjs(cls, V) ==
    {Obj("inst", cls, [i \in 1..Len(s) |-> Field(FieldNames[i], s[i])]) :
        s \in SeqsUpTo(V, MaxSlots)}

\* the values an object holds, keys of a dict included
Slots(o) ==
    IF o.kind = "dict"
    THEN [i \in 1..(2 * Len(o.items)) |->
             IF i % 2 = 1 THEN o.items[(i + 1) \div 2].k ELSE o.items[i \div 2].v]
    ELSE [i \in 1..Len(o.items) |-> o.items[i].v]

Refs(o) == {Slots(o)[i].n : i \in {j \in 1..Len(Slots(o)) : Slots(o)[j].t = "ref"}}

\* the addresses reached from the set S in at most fuel steps; only
\* describes the drawn graphs
RECURSIVE Reach(_, _, _)
Reach(h, S, fuel) ==
    IF fuel = 0 THEN S
    ELSE Reach(h, S \cup UNION {Refs(h[a]) : a \in S}, fuel - 1)

\* the addresses a tuple reaches through tuples alone
RECURSIVE TupleReach(_, _, _)
TupleReach(h, S, fuel) ==
    IF fuel = 0 THEN S
    ELSE TupleReach(h, S \cup UNION {{b \in Refs(h[a]) : h[b].kind = "tuple"} : a \in S},
                    fuel - 1)

\* a graph a Python program can build: a tuple is built after its items, so
\* no tuple holds itself through tuples alone.  Every object is in use, and
\* of two graphs that differ only in the addresses of their containers one
\* is drawn: the first container the root names is at address 2.
Buildable(h) ==
    /\ Reach(h, {1}, Len(h)) = 1..Len(h)
    /\ \A a \in 2..Len(h) :
          h[a].kind = "tuple" =>
              a \notin TupleReach(h, {b \in Refs(h[a]) : h[b].kind = "tuple"}, Len(h))
    /\ LET named == SelectSeq(Slots(h[1]), LAMBDA v : v.t = "ref" /\ v.n > 1)
       IN named # <<>> => named[1].n = 2

GraphObjs(V, cells) ==
    {o \in ListObjs(V) \cup TupleObjs(V) \cup DictObjs(V) \cup InstObjs("A", V) :
        Len(o.items) <= cells}

\* the sequences of k objects that hold at most cells items together
RECURSIVE GraphTails(_, _, _)
GraphTails(k, V, cells) ==
    IF k = 0 THEN {<<>>}
    ELSE UNION {{<<o>> \o rest : rest \in GraphTails(k - 1, V, cells - Len(o.items))} :
                   o \in GraphObjs(V, cells)}

Graphs ==
    UNION {
        {h \in UNION {{<<r>> \o rest :
                          rest \in GraphTails(k, GraphVals(k), MaxCells - Len(r.items))} :
                        r \in {x \in InstObjs("A", GraphVals(k)) : Len(x.items) <= MaxCells}} :
            Buildable(h)} : k \in 0..MaxObjs}

StrAlphabet == {"&", "l", "t", ";", "'", "\\"}

Numbers ==
    {IntV(n) : n \in (0 - MaxInt)..MaxInt}
    \cup {HalfV(x) : x \in (0 - MaxHalf)..MaxHalf}
    \cup {HalfComplexV(x, y) : x, y \in (0 - MaxHalf)..MaxHalf}

Strings == {StrV(s) : s \in SeqsUpTo(StrAlphabet, MaxStrLen)}

Atoms == {NoneV, BoolV(TRUE), BoolV(FALSE)} \cup Numbers

\* a root whose one field holds a scalar, bare or in a container
ScalarGraphs ==
    {<<Obj("inst", "A", <<Field("p", v)>>)>> : v \in Atoms \cup Strings}
    \cup {<<Obj("inst", "A", <<Field("p", RefV(2))>>), Obj("tuple", "", <<Elem(v)>>)>> :
             v \in Atoms}

\* <PyObject class="A" id="9"><attr name="p" type="None" /></PyObject>
PlainDoc ==
    <<PyObjectTag("A", 9), ScalarTag("attr", "p", "None", <<>>), CloseTag("PyObject")>>

\* <PyObject class="B" id="9"><attr name="p" type="None" /></PyObject>
UnknownClassDoc ==
    <<PyObjectTag("B", 9), ScalarTag("attr", "p", "None", <<>>), CloseTag("PyObject")>>

\* <PyObject class="A" id="9"><attr name="p" type="list" refid="5" /></PyObject>
DanglingDoc ==
    <<PyObjectTag("A", 9), CompoundTag("attr", "p", "list", 5, FALSE), CloseTag("PyObject")>>

\* <PyObject class="A" id="9"><attr name="p" type="PyObject" refid="9" /></PyObject>
SelfRefDoc ==
    <<PyObjectTag("A", 9), CompoundTag("attr", "p", "PyObject", 9, FALSE),
      CloseTag("PyObject")>>

\* <PyObject class="A" id="9"><attr name="p" type="list" id="3">
\*   <item type="list" refid="3" /><item type="list" refid="5" /></attr></PyObject>
BackRefDoc ==
    <<PyObjectTag("A", 9), CompoundTag("attr", "p", "list", 3, TRUE),
      CompoundTag("item", "", "list", 3, FALSE), CompoundTag("item", "", "list", 5, FALSE),
      CloseTag("attr"), CloseTag("PyObject")>>

\* <PyObject class="A" id="9"><bogus /></PyObject>
BogusDoc ==
    <<PyObjectTag("A", 9), [OpenTag("bogus") EXCEPT !.sc = TRUE], CloseTag("PyObject")>>

ExtDocs == {PlainDoc, UnknownClassDoc, DanglingDoc, SelfRefDoc, BackRefDoc, BogusDoc}

OmitSets == SUBSET {"p", "q"}

InitWith(h, roots, doc, calls) ==
    /\ heap = h
    /\ heap0 = h
    /\ VISITED = <<>>
    /\ CLASS_STORE = {"A"}
    /\ root = roots
    /\ ext = doc
    /\ budget = calls
    /\ pc = [p \in Procs |-> "idle"]
    /\ stack = [p \in Procs |-> <<>>]
    /\ out = [p \in Procs |-> <<>>]
    /\ omit = [p \in Procs |-> {}]
    /\ src = [p \in Procs |-> <<>>]
    /\ pos = [p \in Procs |-> 0]
    /\ mark = [p \in Procs |-> [heaplen |-> Len(h), store |-> {"A"}]]
    /\ res = [p \in Procs |-> Outcome("", "", NoneV, FALSE)]

Init ==
    \/ \E h \in Graphs \cup ScalarGraphs : InitWith(h, <<1, 1>>, PlainDoc, <<MaxCalls, 0>>)
    \/ \E doc \in ExtDocs :
          InitWith(<<Obj("inst", "A", <<>>)>>, <<1, 1>>, doc, <<MaxCalls, 0>>)

Step(p) ==
    \/ \E om \in OmitSets : XmlDump(p, om)
    \/ PickleField(p)
    \/ PickleDone(p)
    \/ CompleteItem(p)
    \/ CompleteEntry(p)
    \/ CompleteClose(p)
    \/ \E own \in BOOLEAN : XmlLoad(p, own)
    \/ LoadPyObject(p)
    \/ LoadNode(p)
    \/ LoadEntry(p)
    \/ LoadOther(p)
    \/ LoadClose(p)
    \/ LoadReturn(p)
    \/ \E classname \in {"", "B"}, klass \in {"", "B"} : add_class_to_store(p, classname, klass)

Next == Step(1)

Spec == Init /\ [][Next]_vars

\* two callers in one interpreter, each with a graph of its own: the root of
\* caller 1 is at address 1 and holds the container at address 3, the root
\* of caller 2 is at address 2 and holds the container at address 4
ConcContainers ==
    {Obj("list", "", <<Elem(IntV(1))>>), Obj("dict", "", <<Pair(IntV(1), IntV(1))>>)}

ConcGraphs ==
    {<<Obj("inst", "A", <<Field("p", RefV(3)), Field("q", RefV(3))>>),
       Obj("inst", "A", <<Field("p", RefV(4)), Field("q", RefV(4))>>), c, d>> :
        c \in ConcContainers, d \in ConcContainers}

InitConc ==
    \E h \in ConcGraphs : InitWith(h, <<1, 2>>, BogusDoc, <<MaxCalls, 1>>)

NextConc == \E p \in Procs : Step(p)

SpecConc == InitConc /\ [][NextConc]_vars

(***************************************************************************)
(* Documents written by hand, loaded by one caller.                        *)
(***************************************************************************)
\* <PyObject class="A" id="9"><attr name="p" type="numeric" value="text" /></PyObject>
NumericDoc(text) ==
    <<PyObjectTag("A", 9), ScalarTag("attr", "p", "numeric", text), CloseTag("PyObject")>>

\* the digits of a legacy literal, each with its value
HexDigits == {<<"1", 1>>, <<"A", 10>>, <<"f", 15>>}

OctDigits == {<<"1", 1>>, <<"7", 7>>}

DecDigits == {<<"1", 1>>, <<"2", 2>>, <<"0", 0>>}

DigitSeqs(D) == UNION {[1..k -> D] : k \in 1..MaxDigits}

\* a legacy integer literal: the sign, the characters before the digits, the
\* digits with the base they are read in, the characters after them
LegacyBodies ==
    {[pre |-> <<"0">>, ds |-> <<>>, base |-> 10, post |-> <<>>]}
    \cup {[pre |-> p, ds |-> d, base |-> 16, post |-> <<>>] :
             p \in {<<"0", "x">>, <<"0", "X">>}, d \in DigitSeqs(HexDigits)}
    \cup {[pre |-> <<"0">>, ds |-> d, base |-> 8, post |-> <<>>] : d \in DigitSeqs(OctDigits)}
    \cup {[pre |-> <<>>, ds |-> d, base |-> 10, post |-> <<s>>] :
             d \in DigitSeqs(DecDigits), s \in {"l", "L"}}

\* the literal with its sign, in balanced parentheses, in whitespace
LegacyForms ==
    {[sign |-> s, body |-> b, parens |-> k, lead |-> l, trail |-> r] :
        s \in {"", "-", "+"}, b \in LegacyBodies, k \in 0..MaxParens,
        l \in {<<>>, <<" ">>}, r \in {<<>>, <<" ">>}}

RECURSIVE PlaceValue(_, _)
PlaceValue(ds, base) ==
    IF ds = <<>> THEN 0
    ELSE PlaceValue(SubSeq(ds, 1, Len(ds) - 1), base) * base + ds[Len(ds)][2]

RECURSIVE Parenthesized(_, _)
Parenthesized(s, k) == IF k = 0 THEN s ELSE <<"(">> \o Parenthesized(s, k - 1) \o <<")">>

LegacyText(f) ==
    f.lead
    \o Parenthesized((IF f.sign = "" THEN <<>> ELSE <<f.sign>>)
                     \o f.body.pre
                     \o [i \in 1..Len(f.body.ds) |-> f.body.ds[i][1]]
                     \o f.body.post, f.parens)
    \o f.trail

\* the int the literal stands for: the digits read in their base, negated
\* when the sign is '-'
LegacyValue(f) ==
    IF f.sign = "-" THEN 0 - PlaceValue(f.body.ds, f.body.base)
    ELSE PlaceValue(f.body.ds, f.body.base)

\* each legacy literal with the int it stands for
LegacyTable == {<<LegacyText(f), LegacyValue(f)>> : f \in LegacyForms}

NumAlphabet == {"0", "1", "7", "8", "x", "a", "L", "-", "(", ")", " ", "."}

\* every short text, numeric or not
ShortTexts == SeqsUpTo(NumAlphabet, MaxTextLen)

NumericDocs ==
    {NumericDoc(e[1]) : e \in LegacyTable} \cup {NumericDoc(s) : s \in ShortTexts}

\* a tag that carries its text as the body of the element (the in_body
\* branches of _tag_completer, nosis.py:509-532); value is "" when the tag
\* has a value attribute as well
BodyTag(el, name, type, hasvalue, body) ==
    [OpenTag(el) EXCEPT !.name = name, !.type = type, !.hasvalue = hasvalue, !.body = body]

\* one value in the attribute form (p), in the body form (q) and, for a
\* str, in the body of a tag with an empty value attribute (r)
FormsDoc(type, attrtext, bodytext) ==
    <<PyObjectTag("A", 9),
      ScalarTag("attr", "p", type, attrtext),
      BodyTag("attr", "q", type, FALSE, bodytext), CloseTag("attr")>>
    \o (IF type = "string"
        THEN <<BodyTag("attr", "r", type, TRUE, bodytext), CloseTag("attr")>>
        ELSE <<>>)
    \o <<CloseTag("PyObject")>>

FormAlphabet == {"a", "&", "'", "\\", "\r"}

FormStrings == SeqsUpTo(FormAlphabet, MaxFormLen)

FormsDocs ==
    {FormsDoc("string", safe_string(s), safe_content(s)) : s \in FormStrings}
    \cup {FormsDoc("numeric", ntoa(n), ntoa(n)) : n \in Numbers}

\* The documents below are laid out as the encoder lays a document out, each
\* tag ending its line (nosis.py:303-309, 368-403): the first child of an
\* element that has child elements is the text of the line end.

\* <PyObject class="A" id="9"><attr type="None" /></PyObject>
NoNameDoc ==
    <<PyObjectTag("A", 9), ScalarTag("attr", "", "None", <<>>), CloseTag("PyObject")>>

\* <PyObject class="A" id="9"><attr name="p" value="1" /></PyObject>
NoTypeDoc ==
    <<PyObjectTag("A", 9), ScalarTag("attr", "p", "", <<"1">>), CloseTag("PyObject")>>

\* <PyObject class="A" id="9"><attr name="p" type="None">
\*   <bogus /></attr></PyObject>
BogusInScalarDoc ==
    <<PyObjectTag("A", 9), BodyTag("attr", "p", "None", FALSE, <<>>),
      [OpenTag("bogus") EXCEPT !.sc = TRUE], CloseTag("attr"), CloseTag("PyObject")>>

\* <PyObject class="A" id="9"><attr name="p" type="list" id="3">
\*   <item type="None" /><bogus /></attr></PyObject>
BogusInListDoc ==
    <<PyObjectTag("A", 9), CompoundTag("attr", "p", "list", 3, TRUE),
      ScalarTag("item", "", "None", <<>>), [OpenTag("bogus") EXCEPT !.sc = TRUE],
      CloseTag("attr"), CloseTag("PyObject")>>

SchemaDocs == {NoNameDoc, NoTypeDoc, BogusDoc, BogusInScalarDoc, BogusInListDoc}

LoadDocs == NumericDocs \cup FormsDocs \cup SchemaDocs

InitLoad ==
    \E doc \in LoadDocs :
        InitWith(<<Obj("inst", "A", <<>>)>>, <<1, 1>>, doc, <<MaxCalls, 0>>)

NextLoad ==
    \/ XmlLoad(1, FALSE)
    \/ LoadPyObject(1)
    \/ LoadNode(1)
    \/ LoadOther(1)
    \/ LoadClose(1)
    \/ LoadReturn(1)

SpecLoad == InitLoad /\ [][NextLoad]_vars

(***************************************************************************)
(* The properties.  A position of a graph is the path of slot numbers that *)
(* leads to it from the root; two positions hold the same object when the  *)
(* values there are the same address.                                      *)
(***************************************************************************)
Missing == Val("missing", 0, 0, 0, 0, <<>>)

\* the value at the end of path from v, Missing when the path leaves the graph
RECURSIVE Deref(_, _, _)
Deref(h, v, path) ==
    IF path = <<>> THEN v
    ELSE IF v.t # "ref" THEN Missing
    ELSE IF path[1] > Len(Slots(h[v.n])) THEN Missing
    ELSE Deref(h, Slots(h[v.n])[path[1]], Tail(path))

\* the paths of at most n steps that stay in the graph
RECURSIVE PathsFrom(_, _, _)
PathsFrom(h, v, n) ==
    IF n = 0 \/ v.t # "ref" THEN {<<>>}
    ELSE {<<>>} \cup UNION {{<<i>> \o rest : rest \in PathsFrom(h, Slots(h[v.n])[i], n - 1)} :
                              i \in 1..Len(Slots(h[v.n]))}

IsContainer(h, v) == v.t = "ref" /\ h[v.n].kind \in {"list", "tuple", "dict"}

\* caller p has dumped its root with nothing omitted and loaded the document
\* back without an error
RoundTripped(p) ==
    /\ pc[p] = "idle"
    /\ res[p].op = "load"
    /\ res[p].own
    /\ omit[p] = {}

\* the root of caller p reaches only lists, tuples, dicts and scalars
NoInstanceBelow(p) ==
    \A a \in Reach(heap0, {root[p]}, Len(heap0)) \ {root[p]} : heap0[a].kind # "inst"

\* the pairs of different positions of the root of caller p that hold the
\* same list, tuple or dict
SharedPairs(p) ==
    {xy \in PathsFrom(heap0, RefV(root[p]), MaxPath) \X PathsFrom(heap0, RefV(root[p]), MaxPath) :
        /\ xy[1] # xy[2]
        /\ IsContainer(heap0, Deref(heap0, RefV(root[p]), xy[1]))
        /\ Deref(heap0, RefV(root[p]), xy[1]) = Deref(heap0, RefV(root[p]), xy[2])}

\* C1: whenever two positions of the dumped root hold the same list, tuple or
\* dict, empty or not, the load of the dump succeeds and the same two
\* positions of the loaded root hold one and the same object
C1_SharedReference ==
    \A p \in Procs :
        (RoundTripped(p) /\ NoInstanceBelow(p) /\ SharedPairs(p) # {}) =>
            /\ res[p].err = ""
            /\ \A xy \in SharedPairs(p) :
                  /\ Deref(heap, res[p].val, xy[1]) # Missing
                  /\ Deref(heap, res[p].val, xy[1]) = Deref(heap, res[p].val, xy[2])

\* the paths that lead from the list or dict at v back to it
CyclesAt(h, v) ==
    {c \in PathsFrom(h, v, MaxPath) : c # <<>> /\ Deref(h, v, c) = v}

\* the positions of the root of caller p that hold a list or a dict which
\* contains itself, directly or through other containers
CyclicPositions(p) ==
    {x \in PathsFrom(heap0, RefV(root[p]), MaxPath) :
        LET v == Deref(heap0, RefV(root[p]), x)
        IN /\ v.t = "ref"
           /\ heap0[v.n].kind \in {"list", "dict"}
           /\ CyclesAt(heap0, v) # {}}

\* C2: a dump never recurses without bound, and when a list or dict of the
\* dumped root contains itself, the load of the dump succeeds and the
\* self-reference of the loaded container is the loaded container itself
C2_ContainerCycle ==
    \A p \in Procs :
        /\ res[p].err # "RecursionError"
        /\ (RoundTripped(p) /\ NoInstanceBelow(p) /\ CyclicPositions(p) # {}) =>
              /\ res[p].err = ""
              /\ \A x \in CyclicPositions(p) :
                    /\ IsContainer(heap, Deref(heap, res[p].val, x))
                    /\ \A c \in CyclesAt(heap0, Deref(heap0, RefV(root[p]), x)) :
                          Len(x) + Len(c) <= MaxPath =>
                              Deref(heap, res[p].val, x \o c) = Deref(heap, res[p].val, x)

\* a list that holds itself has been dumped and loaded back
C2_Witness ==
    /\ RoundTripped(1)
    /\ res[1].err = ""
    /\ \E x \in CyclicPositions(1) : Len(x) = 1

\* a field of the root of caller p holds a class instance from which the
\* root is reached again (x.self = x, or x.next = y and y.next = x)
InstanceCycle(p) ==
    \E i \in 1..Len(heap0[root[p]].items) :
        LET v == heap0[root[p]].items[i].v
        IN /\ v.t = "ref"
           /\ heap0[v.n].kind = "inst"
           /\ root[p] \in Reach(heap0, {v.n}, Len(heap0))

\* C3: the dump of a root whose field holds a class instance that points
\* back to the root succeeds, and the load of the dump succeeds with the
\* cycle closed on the loaded root itself
C3_InstanceCycle ==
    \A p \in Procs :
        (pc[p] = "idle" /\ omit[p] = {} /\ InstanceCycle(p)) =>
            /\ res[p].op = "dump" => res[p].err = ""
            /\ RoundTripped(p) =>
                  /\ res[p].err = ""
                  /\ \E c \in PathsFrom(heap, res[p].val, MaxPath) :
                        c # <<>> /\ Deref(heap, res[p].val, c) = res[p].val

\* no object the root of caller p reaches is reached again from its own slots
Acyclic(p) ==
    \A a \in Reach(heap0, {root[p]}, Len(heap0)) :
        a \notin Reach(heap0, Refs(heap0[a]), Len(heap0))

\* v1 of heap h1 equals v2 of heap h2: the same scalar of the same type, or
\* containers of the same kind whose items are equal in order (for a dict,
\* the same keys with equal values)
RECURSIVE ValEq(_, _, _, _, _)
ValEq(h1, v1, h2, v2, fuel) ==
    IF v1.t # "ref" \/ v2.t # "ref" THEN v1 = v2
    ELSE /\ fuel > 0
         /\ h1[v1.n].kind = h2[v2.n].kind
         /\ h1[v1.n].cls = h2[v2.n].cls
         /\ Len(h1[v1.n].items) = Len(h2[v2.n].items)
         /\ IF h1[v1.n].kind = "dict"
            THEN \A i \in 1..Len(h1[v1.n].items) :
                    \E j \in 1..Len(h2[v2.n].items) :
                       /\ ValEq(h1, h1[v1.n].items[i].k, h2, h2[v2.n].items[j].k, fuel - 1)
                       /\ ValEq(h1, h1[v1.n].items[i].v, h2, h2[v2.n].items[j].v, fuel - 1)
            ELSE \A i \in 1..Len(h1[v1.n].items) :
                    /\ h1[v1.n].items[i].name = h2[v2.n].items[i].name
                    /\ ValEq(h1, h1[v1.n].items[i].v, h2, h2[v2.n].items[i].v, fuel - 1)

\* C4: the load of the dump of a root whose fields hold acyclic nestings of
\* lists, tuples and dicts over scalars is an instance of the same class with
\* the same field names and equal field values, kind and order preserved
C4_StructuralRoundTrip ==
    \A p \in Procs :
        (RoundTripped(p) /\ NoInstanceBelow(p) /\ Acyclic(p)) =>
            /\ res[p].err = ""
            /\ ValEq(heap0, RefV(root[p]), heap, res[p].val, MaxPath)

\* the first field of the root of caller p holds a scalar
ScalarField(p) ==
    /\ heap0[root[p]].items # <<>>
    /\ IsScalar(heap0[root[p]].items[1].v)

\* C5: a scalar held by a field of the root is loaded back from the dump as
\* the same value of the same type, and aton(ntoa(n)) = n for an int or a
\* complex n
C5_ScalarRoundTrip ==
    \A p \in Procs :
        (RoundTripped(p) /\ ScalarField(p)) =>
            LET v == heap0[root[p]].items[1].v
            IN /\ res[p].err = ""
               /\ Deref(heap, res[p].val, <<1>>) = v
               /\ v.t \in {"int", "complex"} => aton(ntoa(v)) = Ok(v)

\* C6: unsafe_string(safe_string(s)) = s and unsafe_content(safe_content(s))
\* = s for the str s a dump has written
C6_EscapingRoundTrip ==
    \A p \in Procs :
        (/\ res[p].op = "dump"
         /\ res[p].err = ""
         /\ omit[p] = {}
         /\ ScalarField(p)
         /\ heap0[root[p]].items[1].v.t = "str") =>
            LET s == heap0[root[p]].items[1].v.s
            IN /\ unsafe_string(safe_string(s)) = Ok(StrV(s))
               /\ unsafe_content(safe_content(s)) = s

\* caller p takes a step
Stepped(p) ==
    \/ pc'[p] # pc[p]
    \/ stack'[p] # stack[p]
    \/ pos'[p] # pos[p]
    \/ out'[p] # out[p]
    \/ budget'[p] # budget[p]

\* the load of caller p is at a PyObject node whose class is not registered
UnknownClassAhead(p) ==
    /\ AtOpenTag(p)
    /\ src[p][pos[p]].el = "PyObject"
    /\ src[p][pos[p]].cls \notin CLASS_STORE

\* C7: a load that comes to a PyObject naming a class that is not registered
\* ends there with the unknown-class error and no result, having allocated
\* nothing since it began and with CLASS_STORE as it was when it began
C7_UnknownClass ==
    [][\A p \in Procs :
          (UnknownClassAhead(p) /\ Stepped(p)) =>
              /\ pc'[p] = "idle"
              /\ res'[p].op = "load"
              /\ res'[p].err = "ValueError: Cannot create class"
              /\ res'[p].val = NoneV
              /\ Len(heap') = mark[p].heaplen
              /\ CLASS_STORE' = mark[p].store]_vars

\* the load of the document naming class B has failed, B not registered
C7_Witness ==
    /\ ext = UnknownClassDoc
    /\ pc[1] = "idle"
    /\ res[1] = Outcome("load", "ValueError: Cannot create class", NoneV, FALSE)
    /\ "B" \notin CLASS_STORE

\* the load of caller p is at an attr, item, key or val node whose refid is
\* not an id the table holds
DanglingAhead(p) ==
    /\ AtOpenTag(p)
    /\ src[p][pos[p]].el \in {"attr", "item", "key", "val"}
    /\ src[p][pos[p]].refid # 0
    /\ ~VHas(VISITED, "str", IntV(src[p][pos[p]].refid))

\* C8: a load that comes to a node whose refid was not registered as an id
\* earlier in the same load ends there with the error of the failed lookup
\* (KeyError); nothing is stored for the node and the load returns no graph
C8_DanglingReference ==
    [][\A p \in Procs :
          (DanglingAhead(p) /\ Stepped(p)) =>
              /\ pc'[p] = "idle"
              /\ res'[p].op = "load"
              /\ res'[p].err = "KeyError"
              /\ res'[p].val = NoneV
              /\ heap' = heap]_vars

\* a load has failed on a dangling refid after it had resolved a registered
\* one
C8_Witness ==
    /\ ext = BackRefDoc
    /\ pc[1] = "idle"
    /\ res[1] = Outcome("load", "KeyError", NoneV, FALSE)
    /\ Len(heap) > mark[1].heaplen

\* the places in the document s of the elements that follow one another from
\* place i on, up to the close tag of their parent
RECURSIVE Siblings(_, _)
Siblings(s, i) ==
    IF i > Len(s) \/ s[i].close THEN <<>>
    ELSE <<i>> \o Siblings(s, After(s, i))

\* C9: a dump that succeeds has written one attr node for each field of the
\* root not named in omit, in the order of __dict__, and none for a field
\* named in omit; every dict below the root is written with all its entries,
\* whatever their keys; the root is as it was
C9_OmitFields ==
    \A p \in Procs :
        (pc[p] = "idle" /\ res[p].op = "dump" /\ res[p].err = "") =>
            LET kept == SelectSeq(heap0[root[p]].items, LAMBDA it : it.name \notin omit[p])
                top == Siblings(out[p], 2)
            IN /\ Len(top) = Len(kept)
               /\ \A i \in 1..Len(top) :
                     /\ out[p][top[i]].el = "attr"
                     /\ out[p][top[i]].name = kept[i].name
               /\ \A i \in 1..Len(out[p]) :
                     (out[p][i].type = "dict" /\ out[p][i].id # 0) =>
                         LET entries == Siblings(out[p], i + 1)
                             d == heap0[out[p][i].id].items
                         IN /\ Len(entries) = Len(d)
                            /\ \A j \in 1..Len(entries) :
                                  /\ out[p][entries[j]].el = "entry"
                                  /\ d[j].k.t = "str" =>
                                        out[p][entries[j] + 1].value = safe_string(d[j].k.s)
               /\ heap[root[p]] = heap0[root[p]]

\* a root with fields p and q has been dumped with p omitted, and a dict
\* below q has been written with its key "p"
C9_Witness ==
    /\ pc[1] = "idle"
    /\ res[1].op = "dump"
    /\ res[1].err = ""
    /\ omit[1] = {"p"}
    /\ Len(heap0[1].items) = 2
    /\ \E i \in 1..Len(out[1]) :
          out[1][i].el = "key" /\ out[1][i].value = safe_string(<<"p">>)

Loaded(p) ==
    /\ pc[p] = "idle"
    /\ res[p].op = "load"
    /\ ~res[p].own

\* C11: aton gives 0 for '0', '-0' and '+0', reads a hex literal after 0x
\* and an octal literal after 0 in their base, negates the magnitude after a
\* leading '-', and strips a trailing l or L, all after surrounding
\* whitespace and balanced outer parentheses are removed; whatever pattern
\* is tried first, the literal decodes to the int it stands for
C11_LegacyForms ==
    (Loaded(1) /\ ext = NumericDoc(ext[2].value)) =>
        \A e \in LegacyTable :
            ext[2].value = e[1] =>
                /\ res[1].err = ""
                /\ Deref(heap, res[1].val, <<1>>) = IntV(e[2])

\* the document holding ' ((-0x1A)) ' has been loaded
C11_Witness ==
    /\ Loaded(1)
    /\ res[1].err = ""
    /\ ext = NumericDoc(<<" ", "(", "(", "-", "0", "x", "1", "A", ")", ")", " ">>)
    /\ Deref(heap, res[1].val, <<1>>) = IntV(0 - 26)

\* the text, without its surrounding whitespace and outer parentheses,
\* matches one of the numeric patterns
IsNumericText(s) ==
    LET u == Unparen(Strip(s))
    IN /\ u # <<>>
       /\ \/ RE_ZERO(u) \/ RE_FLOAT(u) \/ RE_LONG(u) \/ RE_INT(u)
          \/ RE_HEX(u) \/ RE_OCT(u) \/ RE_COMPLEX(u) \/ RE_COMPLEX2(u)

\* C12: the load of a numeric node whose text matches none of the numeric
\* patterns, the empty text included, fails with the one error aton raises
\* for a malformed literal (ValueError: Invalid string) and returns nothing
C12_AtonFailure ==
    (/\ Loaded(1)
     /\ ext = NumericDoc(ext[2].value)
     /\ ~IsNumericText(ext[2].value)) =>
        /\ res[1].err = "ValueError: Invalid string"
        /\ res[1].val = NoneV

\* the document the host holds carries one value in both forms
IsFormsDoc ==
    /\ Len(ext) >= 5
    /\ ext = FormsDoc(ext[2].type, ext[2].value, ext[3].body)

\* C13: a value written as value="..." and the same value written as the
\* body of the element decode to the same value; a str decodes in both
\* forms, and a tag with an empty value attribute decodes to the empty str
\* whatever its body
C13_AttributeAndBodyForm ==
    (Loaded(1) /\ IsFormsDoc) =>
        /\ ext[2].type = "string" => res[1].err = ""
        /\ res[1].err = "" =>
              /\ Deref(heap, res[1].val, <<1>>) = Deref(heap, res[1].val, <<2>>)
              /\ ext[2].type = "string" => Deref(heap, res[1].val, <<3>>) = StrV(<<>>)

\* the frame k of a dump has a child that is being encoded or is the next
\* to be encoded
ChildPending(p, k) ==
    \/ k < Len(stack[p])
    \/ stack[p][k].i <= Len(heap[stack[p][k].a].items)

\* C14: during a dump, whenever a child of a compound (the root instance, a
\* tuple, a list or a dict) is being encoded, that compound and every
\* compound that encloses it is already in the identity table
C14_RegisteredBeforeChildren ==
    \A p \in Procs :
        pc[p] = "dump" =>
            \A k \in 1..Len(stack[p]) :
                ChildPending(p, k) => VHas(VISITED, "id", RefV(stack[p][k].a))

\* C15: in every state of a dump or a load the identity table holds only
\* compound values (instances, tuples, lists, dicts), never None, a bool, a
\* number or a str
C15_ScalarsStayOut ==
    \A i \in 1..Len(VISITED) : VISITED[i].val.t = "ref"

\* the ids the tags of doc before position i carry
IdsBefore(doc, i) == {doc[j].id : j \in (1..(i - 1)) \cap DOMAIN doc} \ {0}

\* every refid of doc names an id written earlier in doc
RefsResolved(doc) ==
    \A i \in 1..Len(doc) : doc[i].refid # 0 => doc[i].refid \in IdsBefore(doc, i)

\* every compound the table holds was entered by the call caller p is in:
\* a dump has written its id, a load has read its id
TableFromThisCall(p) ==
    /\ pc[p] = "dump" =>
          \A i \in 1..Len(VISITED) :
              /\ VISITED[i].kind = "id"
              /\ VISITED[i].val.t = "ref" =>
                    VISITED[i].val.n \in IdsBefore(out[p], Len(out[p]) + 1)
    /\ pc[p] = "load" =>
          \A i \in 1..Len(VISITED) :
              /\ VISITED[i].kind = "str"
              /\ VISITED[i].key.n \in IdsBefore(src[p], pos[p] + 1)

\* the step begins a top-level dump of caller p
DumpBegins(p) == pc[p] = "idle" /\ pc'[p] = "dump"

\* the step begins a top-level load of caller p: the load goes on, or it has
\* ended at once on a text that does not parse
LoadBegins(p) ==
    /\ pc[p] = "idle"
    /\ \/ pc'[p] = "load"
       \/ pc'[p] = "idle" /\ budget'[p] < budget[p] /\ res'[p] # res[p]

\* the step ends a dump of caller p that follows a dump with the same omit
SecondDumpEnds(p) ==
    /\ pc[p] = "dump" /\ pc'[p] = "idle" /\ res'[p].err = ""
    /\ res[p].op = "dump" /\ res[p].err = "" /\ res[p].om = omit[p]

\* C16: a top-level call starts with a table that holds nothing of an
\* earlier call (empty for a load, only the root for a dump); every refid a
\* dump writes names an id the same dump wrote before it and every entry
\* the table holds during a call was entered by that call; and a dump of
\* the same graph that follows a dump writes the same text, ids and refids
\* included
C16_TableReset ==
    [][\A p \in {1} :
          /\ DumpBegins(p) => VISITED' = <<VEntry("id", RefV(root[p]), RefV(root[p]))>>
          /\ LoadBegins(p) => VISITED' = <<>>
          /\ TableFromThisCall(p)'
          /\ pc'[p] = "dump" => RefsResolved(out'[p])
          /\ SecondDumpEnds(p) => res'[p].doc = res[p].doc]_vars

\* the state two dumps of one graph end in, the text holding a refid (no load
\* came before: the load of PlainDoc allocates an instance)
C16_Witness ==
    /\ pc[1] = "idle" /\ budget[1] = 0
    /\ res[1].op = "dump" /\ res[1].err = ""
    /\ ext = PlainDoc /\ Len(heap) = Len(heap0)
    /\ \E i \in 1..Len(res[1].doc) : res[1].doc[i].refid # 0

ElementNames == {"PyObject", "attr", "item", "key", "val", "entry"}

\* the tag is an element the schema does not know, an attr without a name,
\* or a value that is no refid and has neither type nor family
SchemaBreach(tag) ==
    /\ ~tag.close
    /\ \/ tag.el \notin ElementNames
       \/ tag.el = "attr" /\ tag.name = ""
       \/ /\ tag.el \in {"attr", "item", "key", "val"}
          /\ tag.refid = 0 /\ tag.type = "" /\ tag.family = ""

\* C17: the load of a document that holds an element of an unknown name, an
\* attr without name, or a value without refid, type and family fails and
\* returns no object
C17_SchemaFailures ==
    (Loaded(1) /\ \E i \in 1..Len(ext) : SchemaBreach(ext[i])) =>
        /\ res[1].err # ""
        /\ res[1].val = NoneV

\* the object a load frame is filling: the instance of a PyObject node, the
\* list or dict of a seq or map node
Shell(f) == IF f.tag.el = "PyObject" THEN RefV(f.a) ELSE f.cont

\* the node caller p is at is an attr, item, key or val whose refid is the
\* id of the node of frame k, a PyObject, list or dict node that encloses it
RefersToFrame(p, k) ==
    /\ AtOpenTag(p)
    /\ src[p][pos[p]].el \in {"attr", "item", "key", "val"}
    /\ (src[p][pos[p]].el = "attr") = (Top(p).tag.el = "PyObject")
    /\ src[p][pos[p]].refid # 0
    /\ src[p][pos[p]].refid = stack[p][k].tag.id
    /\ \/ stack[p][k].tag.el = "PyObject"
       \/ stack[p][k].tag.el # "entry" /\ stack[p][k].tag.type \in {"list", "dict"}

\* the container cont of heap h holds val where the node tag puts it
StoredAt(h, cont, tag, val) ==
    LET items == h[cont.n].items
    IN IF tag.el = "attr"
       THEN \E i \in 1..Len(items) : items[i].name = tag.name /\ items[i].v = val
       ELSE items # <<>> /\ items[Len(items)].v = val

\* C18: a PyObject node's instance and a seq or map node's list or dict are
\* registered under the node's id before the children of the node are
\* decoded: the load does not fail at a child whose refid is the id of an
\* enclosing PyObject, list or dict node, the child is given that very
\* object, and the instance loaded from SelfRefDoc has itself as its field
C18_ShellBeforeChildren ==
    [][\A p \in {1} :
          /\ \A k \in 1..Len(stack[p]) :
                (RefersToFrame(p, k) /\ Stepped(p)) =>
                    /\ pc'[p] = "load"
                    /\ StoredAt(heap', Top(p).cont, src[p][pos[p]], Shell(stack[p][k]))
          /\ (pc[p] = "load" /\ pc'[p] = "idle" /\ src[p] = SelfRefDoc) =>
                /\ res'[p].err = ""
                /\ Deref(heap', res'[p].val, <<1>>) = res'[p].val]_vars

\* SelfRefDoc has been loaded and the field p of the result is the result
C18_Witness ==
    /\ Loaded(1)
    /\ ext = SelfRefDoc /\ src[1] = SelfRefDoc
    /\ res[1].err = ""
    /\ res[1].val.t = "ref"
    /\ Deref(heap, res[1].val, <<1>>) = res[1].val

====
